---- MODULE Spec2Model ----
(***************************************************************************)
(* The five plot_pdf_variations programs: the bin classifier, the one-pass *)
(* event loop that fills the per-bin accumulators, and the per-bin         *)
(* envelope step.  A run is one program (variant) on one input tree.       *)
(*                                                                         *)
(* Numbers.  Weights (float) are integers here; a double that is a         *)
(* quotient is an exact fraction <<n, d>> with d > 0 in lowest terms, so   *)
(* sum / 100.0 and w_sum / (w_nom * 100.0) are exact.  The one place where *)
(* the code relies on the rounding of a double, (int)(N * 0.16), is        *)
(* computed from the IEEE-754 bits of 0.16 and 0.84.                       *)
(***************************************************************************)
EXTENDS Integers, Sequences, FiniteSets, TLC

(***************************************************************************)
(* Bounds of the model                                                     *)
(***************************************************************************)
MaxEntries == 2      \* records in the tree of a full run (Spec)
MaxNleps == 2        \* nleps ranges over 0..MaxNleps in SpecClassify
MaxNjets == 9        \* njets ranges over -1..MaxNjets in SpecClassify
MaxNbm == 5          \* nbm ranges over -1..MaxNbm (and BigNbm) in SpecClassify
MaxN == 101          \* longest per-bin sample list of SpecEnvelope
BigNbm == 99         \* one large b-tag count

(***************************************************************************)
(* Program constants                                                       *)
(***************************************************************************)
nBins == 14
nMjBins == 3
nReplicas == 100     \* the literal 100: replica count, row length, divisor

binNumbers == <<22, 23, 24, 25, 26, 27, 28, 29, 30, 31, 32, 33, 35, 36>>

Variants == {"BJ_v3", "BJ_v4", "CG_v3", "CG_mj_v2", "CG_mj_v3"}
SampleVariants == {"BJ_v3", "BJ_v4"}
MjVariants == {"CG_mj_v2", "CG_mj_v3"}
SumVariants == {"CG_v3"} \cup MjVariants

(***************************************************************************)
(* Bin classifier                                                          *)
(***************************************************************************)
\* for(i=0; i<nBins; ++i) if(binNumbers[i] == binNum) return i;  return -1;
RECURSIVE getIdxFrom(_, _)
getIdxFrom(i, binNum) ==
    IF i >= nBins THEN -1
    ELSE IF binNumbers[i + 1] = binNum THEN i
    ELSE getIdxFrom(i + 1, binNum)

\* a scan that starts at the second catalog entry; C4 must reject it
getIdxFromSecond(binNum) == getIdxFrom(1, binNum)

getIdx(binNum) == getIdxFrom(0, binNum)

\* a jet category that admits three jets; C3 must reject it
jetCategoryFromThree(njets_) ==
    IF njets_ >= 3 /\ njets_ <= 5 THEN 0
    ELSE IF njets_ >= 6 /\ njets_ <= 7 THEN 1
    ELSE IF njets_ >= 8 THEN 2
    ELSE -1

jetCategory(njets_) ==
    IF njets_ >= 4 /\ njets_ <= 5 THEN 0
    ELSE IF njets_ >= 6 /\ njets_ <= 7 THEN 1
    ELSE IF njets_ >= 8 THEN 2
    ELSE -1

\* a table whose nbm = 2 row starts one early; C1 must reject it
getBinNumberShiftedRow(njets_, nbm_) ==
    LET j_cat == jetCategory(njets_) IN
    IF j_cat = -1 THEN -1
    ELSE IF nbm_ = 0 THEN 22 + j_cat
    ELSE IF nbm_ = 1 THEN 25 + j_cat
    ELSE IF nbm_ = 2 THEN 27 + j_cat
    ELSE IF nbm_ = 3 THEN 31 + j_cat
    ELSE IF nbm_ >= 4 THEN
        (IF j_cat = 0 THEN 31 ELSE IF j_cat = 1 THEN 35 ELSE 36)
    ELSE -1

\* a table that merges nbm = 4 only; C2 must reject it
getBinNumberFourOnly(njets_, nbm_) ==
    LET j_cat == jetCategory(njets_) IN
    IF j_cat = -1 THEN -1
    ELSE IF nbm_ = 0 THEN 22 + j_cat
    ELSE IF nbm_ = 1 THEN 25 + j_cat
    ELSE IF nbm_ = 2 THEN 28 + j_cat
    ELSE IF nbm_ = 3 THEN 31 + j_cat
    ELSE IF nbm_ = 4 THEN
        (IF j_cat = 0 THEN 31 ELSE IF j_cat = 1 THEN 35 ELSE 36)
    ELSE -1

getBinNumber(njets_, nbm_) ==
    LET j_cat == jetCategory(njets_) IN
    IF j_cat = -1 THEN -1
    ELSE IF nbm_ = 0 THEN 22 + j_cat
    ELSE IF nbm_ = 1 THEN 25 + j_cat
    ELSE IF nbm_ = 2 THEN 28 + j_cat
    ELSE IF nbm_ = 3 THEN 31 + j_cat
    ELSE IF nbm_ >= 4 THEN
        (IF j_cat = 0 THEN 31 ELSE IF j_cat = 1 THEN 35 ELSE 36)
    ELSE -1

\* a first range that is open at 500; C5 must reject it
getMjBinIndexOpen(mj12_) ==
    IF mj12_ > 500 /\ mj12_ < 800 THEN 0
    ELSE IF mj12_ >= 800 /\ mj12_ < 1100 THEN 1
    ELSE IF mj12_ >= 1100 THEN 2
    ELSE -1

getMjBinIndex(mj12_) ==
    IF mj12_ >= 500 /\ mj12_ < 800 THEN 0
    ELSE IF mj12_ >= 800 /\ mj12_ < 1100 THEN 1
    ELSE IF mj12_ >= 1100 THEN 2
    ELSE -1

(***************************************************************************)
(* Exact fractions for the doubles that are quotients                      *)
(***************************************************************************)
Abs(x) == IF x < 0 THEN -x ELSE x

RECURSIVE Gcd(_, _)
Gcd(a, b) == IF b = 0 THEN a ELSE Gcd(b, a % b)

\* n / d for d # 0, in lowest terms with a positive denominator
Frac(n, d) ==
    LET g == Gcd(Abs(n), Abs(d))
        s == IF d < 0 THEN -1 ELSE 1
    IN  <<(s * n) \div g, (s * d) \div g>>

FracOfInt(n) == <<n, 1>>

\* x < y; the integer parts are compared first so that 1.0e9 needs no product
FracLess(x, y) ==
    LET qx == x[1] \div x[2]
        qy == y[1] \div y[2]
    IN  \/ qx < qy
        \/ /\ qx = qy
           /\ (x[1] % x[2]) * y[2] < (y[1] % y[2]) * x[2]

\* x / y for y # 0
FracDiv(x, y) == Frac(x[1] * y[2], x[2] * y[1])

\* x + y and x - y
FracAdd(x, y) == Frac(x[1] * y[2] + y[1] * x[2], x[2] * y[2])

FracSub(x, y) == Frac(x[1] * y[2] - y[1] * x[2], x[2] * y[2])

\* BJ_v4 lines 140-141: double y_range = y_max - y_min;
\* SetRangeUser(y_min - y_range*0.1, y_max + y_range*0.1), the pair handed on
SetRangeUser(lo, hi) ==
    LET y_range == FracSub(hi, lo)
        margin == Frac(y_range[1], y_range[2] * 10)
    IN  <<FracSub(lo, margin), FracAdd(hi, margin)>>

(***************************************************************************)
(* std::sort(first, last): the ascending arrangement of a sequence         *)
(***************************************************************************)
IntLess(x, y) == x < y

\* a sort that overwrites every entry with the least one; C19 must reject it
SortFracsAllLeast(s) == [k \in 1..Len(s) |-> SortSeq(s, FracLess)[1]]

SortFracs(s) == SortSeq(s, FracLess)

SortInts(s) == SortSeq(s, IntLess)

(***************************************************************************)
(* (int)(N * c) for a double constant c = mant / 2^scale, 0 <= N < 2^15.   *)
(* The product of two doubles is the exact product rounded to 53           *)
(* significant bits, ties to even; the cast then drops the fraction.       *)
(***************************************************************************)
LimbBase == 32768    \* 2^15: a limb times N stays below 2^31
LimbBits == 15
nLimbs == 5          \* 75 bits hold a 53-bit mantissa times N
MantBits == 53

\* 0.16 = 0x3FC47AE147AE147B = 0x147AE147AE147B / 2^55, least limb first
Mant16 == <<5243, 3932, 27525, 163, 0>>
Scale16 == 55
\* 0.84 = 0x3FEAE147AE147AE1 = 0x1AE147AE147AE1 / 2^53, least limb first
Mant84 == <<31457, 23592, 1310, 215, 0>>
Scale84 == 53

RECURSIVE Pow2(_)
Pow2(n) == IF n = 0 THEN 1 ELSE 2 * Pow2(n - 1)

RECURSIVE MulLimbs(_, _, _, _)
MulLimbs(m, n, k, carry) ==
    IF k > nLimbs THEN <<>>
    ELSE LET v == m[k] * n + carry
         IN  <<v % LimbBase>> \o MulLimbs(m, n, k + 1, v \div LimbBase)

\* bit i (0 = least) of the number held in limbs p
BitOf(p, i) == (p[(i \div LimbBits) + 1] \div Pow2(i % LimbBits)) % 2

BitLen(p) ==
    LET set == {i \in 0..(nLimbs * LimbBits - 1) : BitOf(p, i) = 1}
    IN  IF set = {} THEN 0 ELSE 1 + CHOOSE i \in set : \A j \in set : j <= i

RECURSIVE BitsValue(_, _, _)
BitsValue(p, lo, hi) ==
    IF hi < lo THEN 0 ELSE 2 * BitsValue(p, lo + 1, hi) + BitOf(p, lo)

TruncMul(N, mant, scale) ==
    LET p == MulLimbs(mant, N, 1, 0)
        len == BitLen(p)
        s == IF len > MantBits THEN len - MantBits ELSE 0   \* bits rounded away
        whole == BitsValue(p, scale, nLimbs * LimbBits - 1)
        roundUp == /\ s >= 1
                   /\ BitOf(p, s - 1) = 1
                   /\ \/ \E i \in 0..(s - 2) : BitOf(p, i) = 1
                      \/ BitOf(p, s) = 1
        carryIn == roundUp /\ \A i \in s..(scale - 1) : BitOf(p, i) = 1
    IN  IF carryIn THEN whole + 1 ELSE whole

(***************************************************************************)
(* State                                                                   *)
(***************************************************************************)
VARIABLES
    variant,              \* which of the five programs runs
    layout,               \* what this build keeps right after a 100-entry row
    argc, file, has_tree, \* the command line, the file opened, whether it has a "tree"
    branches,             \* the names of the tree's branches
    status, saved,        \* main's return value, whether c1->SaveAs has run
    pc,                   \* "args", "open", "tree", "branches", "exited" in the setup;
                          \* "loop", "envelope", "draw", "done", "aborted" after it
    nentries, i,          \* tree->GetEntries() and the loop counter
    tree,                 \* the records GetEntry has returned, in order
    weight_vec, nleps, njets, nbm, mj12,   \* the branch variables
    binNum, bIdx, mIdx,   \* the loop body's locals ("unset" when not computed)
    step,                 \* where the last loop body ended
    bin_event_ratios,     \* BJ_v3: [bin][event] ratios
    bin_data, y_min, y_max,                \* BJ_v4: [bin][event] averages, range
    bin_replica_sums,     \* CG_v3: [bin][replica] sums
    past_end,             \* CG_v3: the 8 bytes that follow each row's storage
    data,                 \* CG_mj_bin_v2: [bin][mj][replica] sums
    bin_mj_replica_sums,  \* CG_mj_bin_v3: [bin][mj][replica] sums
    b,                    \* the per-bin loop's counter
    idx_16, idx_84,       \* bin -> percentile index, for the bins that got one
    blue_lines, cyan_lines,                \* BJ: the lines created, in order
    h_frame,              \* BJ_v3: the reference histogram's contents
    h_nom, h_down, h_up,  \* CG: the result histograms' contents
    h_reps                \* CG: the 100 per-replica histograms' contents

branchVars == <<tree, weight_vec, nleps, njets, nbm, mj12>>
localVars == <<binNum, bIdx, mIdx, step>>
accVars == <<bin_event_ratios, bin_data, y_min, y_max, bin_replica_sums,
             past_end, data, bin_mj_replica_sums>>
envVars == <<b, idx_16, idx_84, blue_lines, cyan_lines, h_frame, h_nom, h_down, h_up,
             h_reps>>
inputVars == <<argc, file, has_tree, branches>>
outVars == <<status, saved>>
vars == <<variant, layout, inputVars, outVars, pc, nentries, i, branchVars, localVars,
          accVars, envVars>>

NoObject == <<>>          \* a variable the running variant does not declare
NoEntries == [x \in {} |-> 0]      \* a table nothing was written to yet
Bins == 0..(nBins - 1)
MjBins == 0..(nMjBins - 1)
Replicas == 0..(nReplicas - 1)

Layouts == {"slack", "adjacent", "guarded"}
GarbageVals == {0, 7}     \* what uninitialised heap bytes may hold, as a double

ZeroRow == [k \in Replicas |-> 0]

\* vector<vector<double>> x(nBins)
EmptyLists == [bb \in Bins |-> <<>>]
\* vector<vector<double>> x(nBins, vector<double>(100, 0.0))
ZeroSums == [bb \in Bins |-> ZeroRow]
\* vector<vector<vector<double>>> x(nBins, ...(nMjBins, vector<double>(100, 0.0)))
ZeroMjSums == [bb \in Bins |-> [m \in MjBins |-> ZeroRow]]

\* the state main() is in when it reaches its event loop
InitAccumulators(g) ==
    /\ bin_event_ratios = IF variant = "BJ_v3" THEN EmptyLists ELSE NoObject
    /\ bin_data = IF variant = "BJ_v4" THEN EmptyLists ELSE NoObject
    /\ y_min = IF variant = "BJ_v4" THEN FracOfInt(1000000000) ELSE NoObject
    /\ y_max = IF variant = "BJ_v4" THEN FracOfInt(-1000000000) ELSE NoObject
    /\ bin_replica_sums = IF variant = "CG_v3" THEN ZeroSums ELSE NoObject
    /\ past_end = IF variant = "CG_v3" THEN [bb \in Bins |-> g] ELSE NoObject
    /\ data = IF variant = "CG_mj_v2" THEN ZeroMjSums ELSE NoObject
    /\ bin_mj_replica_sums = IF variant = "CG_mj_v3" THEN ZeroMjSums ELSE NoObject

InitBranches ==
    /\ tree = <<>>
    /\ weight_vec = <<>>
    /\ nleps = 0 /\ njets = 0 /\ nbm = 0 /\ mj12 = 0
    /\ binNum = "unset" /\ bIdx = "unset" /\ mIdx = "unset"
    /\ step = "none"

InitEnvelope ==
    /\ b = 0
    /\ idx_16 = NoEntries /\ idx_84 = NoEntries
    /\ blue_lines = <<>> /\ cyan_lines = <<>>
    /\ h_frame = NoEntries
    /\ h_nom = NoEntries /\ h_down = NoEntries /\ h_up = NoEntries
    /\ h_reps = NoEntries

\* the branches a program sets an address for
Required(v) ==
    {"weight", "nleps", "njets", "nbm"} \cup (IF v \in MjVariants THEN {"mj12"} ELSE {})

\* the value of status while main has not returned
NotReturned == -1

\* a run whose setup found everything it looks for
InitInputs ==
    /\ argc = 2
    /\ file = "ok"
    /\ has_tree = TRUE
    /\ branches = Required(variant)
    /\ status = NotReturned
    /\ saved = FALSE

InitBuild ==
    /\ variant \in Variants
    /\ InitInputs
    /\ layout \in (IF variant = "CG_v3" THEN Layouts ELSE {"slack"})
    /\ \E g \in (IF variant = "CG_v3" THEN GarbageVals ELSE {0}) : InitAccumulators(g)
    /\ InitBranches
    /\ InitEnvelope
    /\ pc = "loop"
    /\ i = 0

Init ==
    /\ InitBuild
    /\ nentries \in 0..MaxEntries

(***************************************************************************)
(* The event loop: one action is one iteration, GetEntry(i) included       *)
(***************************************************************************)
\* weight_vec->at(k) for k in 0 .. n-1, summed as far as the vector goes
RECURSIVE SumRange(_, _, _)
SumRange(w, lo, hi) ==
    IF lo > hi THEN 0
    ELSE IF lo = hi THEN w[lo]
    ELSE LET mid == (lo + hi) \div 2
         IN  SumRange(w, lo, mid) + SumRange(w, mid + 1, hi)

SumPrefix(w, n) == SumRange(w, 1, IF n <= Len(w) THEN n ELSE Len(w))

\* if (!weight_vec || weight_vec->empty()) continue;
IsEmpty(w) == Len(w) = 0

\* if (nleps != 1) continue;
\* a cut that lets two leptons through; C6 must reject it
LeptonCutBelowOne(nleps_) == nleps_ < 1

LeptonCut(nleps_) == nleps_ # 1

\* if (weight_vec->size() >= 100)
EnoughReplicas(w) == Len(w) >= nReplicas

\* the number of iterations of the accumulating for loop: k<=100 in CG_v3,
\* k<100 in the two mj programs
LoopCount(v) == IF v = "CG_v3" THEN nReplicas + 1 ELSE nReplicas

\* at(k) throws std::out_of_range at the first k >= size(); nothing catches it
Throws(w, n) == Len(w) < n

\* The sums are doubles and the weights floats.  The model writes the value
\* h * 2^80 + l, for whole numbers h and l with |l| < BigUnit / 2, as the
\* integer h * BigUnit + l; the order of the integers is the order of the
\* values.  A double with h # 0 has l = 0, since it keeps 53 bits.
BigUnit == 1048576

\* the h of a value
HighPart(x) == (x + BigUnit \div 2) \div BigUnit

\* x + y on doubles, rounded to nearest: beside a multiple of 2^80 a number
\* below 2^27 is less than half a unit in the last place, and is lost
AddDouble(x, y) ==
    LET s == x + y
    IN  IF HighPart(s) # 0 THEN HighPart(s) * BigUnit ELSE s

\* a row that takes the weights in place of adding them; C13 must reject it
AddedRowAssigned(row, w, n) ==
    [k \in Replicas |-> IF k < n /\ k < Len(w) THEN w[k + 1] ELSE row[k]]

\* a row after the iterations that ran before the loop ended or threw
AddedRow(row, w, n) ==
    [k \in Replicas |->
        IF k < n /\ k < Len(w) THEN AddDouble(row[k], w[k + 1]) ELSE row[k]]

\* an iteration that ends in a continue, or in the skipped if of the sum programs
Skip(st, bn, bi, mi) ==
    /\ step' = st
    /\ binNum' = bn /\ bIdx' = bi /\ mIdx' = mi
    /\ pc' = pc
    /\ UNCHANGED accVars

\* a nominal weight that falls back to 100, not 1.0; C11 must reject it
AccumulateRatioOtherNominal(w, bi) ==
    LET w_nom == IF w[1] = 0 THEN nReplicas ELSE w[1]
        w_sum == SumPrefix(w, nReplicas)
        ratio == Frac(w_sum, w_nom * nReplicas)
    IN  /\ bin_event_ratios' =
              [bin_event_ratios EXCEPT ![bi] = Append(@, ratio)]
        /\ UNCHANGED <<bin_data, y_min, y_max, bin_replica_sums, past_end, data,
                       bin_mj_replica_sums>>
        /\ step' = "added" /\ pc' = pc

\* BJ_v3, lines 129-147
AccumulateRatio(w, bi) ==
    LET w_nom == IF w[1] = 0 THEN 1 ELSE w[1]
        w_sum == SumPrefix(w, nReplicas)
        ratio == Frac(w_sum, w_nom * nReplicas)
    IN  /\ bin_event_ratios' =
              [bin_event_ratios EXCEPT ![bi] = Append(@, ratio)]
        /\ UNCHANGED <<bin_data, y_min, y_max, bin_replica_sums, past_end, data,
                       bin_mj_replica_sums>>
        /\ step' = "added" /\ pc' = pc

\* BJ_v4, lines 121-129
AccumulateAverage(w, bi) ==
    LET limit == IF Len(w) < nReplicas THEN Len(w) ELSE nReplicas
        sum == SumPrefix(w, limit)
        avg_val == Frac(sum, nReplicas)
    IN  /\ bin_data' = [bin_data EXCEPT ![bi] = Append(@, avg_val)]
        /\ y_min' = IF FracLess(avg_val, y_min) THEN avg_val ELSE y_min
        /\ y_max' = IF FracLess(y_max, avg_val) THEN avg_val ELSE y_max
        /\ UNCHANGED <<bin_event_ratios, bin_replica_sums, past_end, data,
                       bin_mj_replica_sums>>
        /\ step' = "added" /\ pc' = pc

\* CG_v3, lines 129-133.  The loop runs k = 0..100 on rows of 100 entries:
\* at(100) throws when the event has exactly 100 weights; otherwise the last
\* iteration adds weight[100] to what follows the row in memory, which is
\* undefined: slack after the row, the next row's first entry, or a fault.
AccumulateSums(w, bi) ==
    LET n == LoopCount(variant)
        row == AddedRow(bin_replica_sums[bi], w, n)
        past == n > nReplicas /\ ~Throws(w, n)     \* the write to [bi][100] happens
        hitsNext == past /\ layout = "adjacent" /\ bi + 1 < nBins
        hitsSlack == past /\ ~hitsNext /\ layout # "guarded"
    IN  /\ bin_replica_sums' =
              [bb \in Bins |->
                  IF bb = bi THEN row
                  ELSE IF hitsNext /\ bb = bi + 1
                       THEN [bin_replica_sums[bb] EXCEPT ![0] =
                                  AddDouble(@, w[nReplicas + 1])]
                  ELSE bin_replica_sums[bb]]
        /\ past_end' = IF hitsSlack
                       THEN [past_end EXCEPT ![bi] = AddDouble(@, w[nReplicas + 1])]
                       ELSE past_end
        /\ UNCHANGED <<bin_event_ratios, bin_data, y_min, y_max, data,
                       bin_mj_replica_sums>>
        /\ step' = IF Throws(w, n) THEN "throw"
                   ELSE IF past /\ layout = "guarded" THEN "fault"
                   ELSE "added"
        /\ pc' = IF step' = "added" THEN pc ELSE "aborted"

\* CG_mj_bin_v2, lines 188-192, and CG_mj_bin_v3, lines 171-175
AccumulateMjSums(w, bi, mi) ==
    LET n == LoopCount(variant)
        sums == IF variant = "CG_mj_v2" THEN data ELSE bin_mj_replica_sums
        new == [sums EXCEPT ![bi][mi] = AddedRow(@, w, n)]
    IN  /\ data' = IF variant = "CG_mj_v2" THEN new ELSE data
        /\ bin_mj_replica_sums' =
              IF variant = "CG_mj_v3" THEN new ELSE bin_mj_replica_sums
        /\ UNCHANGED <<bin_event_ratios, bin_data, y_min, y_max, bin_replica_sums,
                       past_end>>
        /\ step' = IF Throws(w, n) THEN "throw" ELSE "added"
        /\ pc' = IF Throws(w, n) THEN "aborted" ELSE pc

Accumulate(w, bn, bi, mi) ==
    /\ binNum' = bn /\ bIdx' = bi /\ mIdx' = mi
    /\ CASE variant = "BJ_v3" -> AccumulateRatio(w, bi)
         [] variant = "BJ_v4" -> AccumulateAverage(w, bi)
         [] variant = "CG_v3" -> AccumulateSums(w, bi)
         [] OTHER -> AccumulateMjSums(w, bi, mi)

\* one iteration of  for (Long64_t i = 0; i < nentries; ++i)  on record ev
ProcessEntry(ev) ==
    /\ pc = "loop"
    /\ i < nentries
    /\ i' = i + 1
    /\ tree' = Append(tree, ev)
    /\ weight_vec' = IF "weight" \in branches THEN ev.weight ELSE weight_vec
    /\ nleps' = IF "nleps" \in branches THEN ev.nleps ELSE nleps
    /\ njets' = IF "njets" \in branches THEN ev.njets ELSE njets
    /\ nbm' = IF "nbm" \in branches THEN ev.nbm ELSE nbm
    /\ mj12' = IF "mj12" \in branches THEN ev.mj12 ELSE mj12
    /\ UNCHANGED <<variant, layout, inputVars, outVars, nentries, envVars>>
    /\ LET w == weight_vec'
           hasMj == variant \in MjVariants
           bn == getBinNumber(njets', nbm')
           bi == getIdx(bn)
           mi == IF hasMj THEN getMjBinIndex(mj12') ELSE "unset"
       IN  IF IsEmpty(w) THEN Skip("empty", "unset", "unset", "unset")
           ELSE IF LeptonCut(nleps') THEN Skip("nleps", "unset", "unset", "unset")
           ELSE IF bn = -1 THEN Skip("nobin", bn, "unset", "unset")
           ELSE IF bi = -1 THEN Skip("noidx", bn, bi, "unset")
           ELSE IF hasMj /\ mi = -1 THEN Skip("nomj", bn, bi, mi)
           ELSE IF variant \in SumVariants /\ ~EnoughReplicas(w)
                THEN Skip("short", bn, bi, mi)
           ELSE Accumulate(w, bn, bi, mi)

(***************************************************************************)
(* The records a tree may hold                                             *)
(***************************************************************************)
Ramp(len, first, d) == [k \in 1..len |-> first + d * (k - 1)]

Event(l, j, n, m, w) == [nleps |-> l, njets |-> j, nbm |-> n, mj12 |-> m, weight |-> w]

\* the programs without an mj12 branch read no mj12: one value stands for all
MjOf(v, m) == IF v \in MjVariants THEN m ELSE 0

\* records of a full run: one that qualifies in each of two bins, and one for
\* each way a record can fail to qualify
RunEvents(v) ==
    { Event(1, 4, 0, MjOf(v, 500), Ramp(nReplicas + 1, 1, 1)),
      Event(1, 8, 4, MjOf(v, 1100), Ramp(nReplicas + 1, 0, 2)),
      Event(1, 4, 0, MjOf(v, 500), Ramp(nReplicas, 100, -1)),
      Event(1, 4, 0, MjOf(v, 500), Ramp(nReplicas - 1, 2, 0)),
      Event(1, 4, 0, MjOf(v, 500), <<>>),
      Event(2, 4, 0, MjOf(v, 500), Ramp(nReplicas + 1, 1, 1)),
      Event(1, 3, 0, MjOf(v, 500), Ramp(nReplicas + 1, 1, 1)),
      Event(1, 4, 0, MjOf(v, 499), Ramp(nReplicas + 1, 1, 1)) }

MjVals == {0, 499, 500, 799, 800, 1099, 1100, 1500}
NbmVals == (-1..MaxNbm) \cup {BigNbm}

\* records of a one-record run: every combination of the attributes
ClassifyEvents(v) ==
    { Event(l, j, n, MjOf(v, m), w) :
        l \in 0..MaxNleps, j \in -1..MaxNjets, n \in NbmVals, m \in MjVals,
        w \in {<<>>, Ramp(nReplicas + 1, 1, 1)} }

GetEntry == \E ev \in RunEvents(variant) : ProcessEntry(ev)

\* records that qualify, for the part of a tree before its last record
PriorEvents(v) ==
    { Event(1, 4, 0, MjOf(v, 500), Ramp(nReplicas + 1, 1, 1)),
      Event(1, 8, 4, MjOf(v, 1100), Ramp(nReplicas + 1, 0, 2)) }

\* a tree whose last record is any record
GetEntryAny ==
    \E ev \in (IF i + 1 = nentries THEN ClassifyEvents(variant)
                ELSE PriorEvents(variant)) : ProcessEntry(ev)

\* record i of a tree of n records that all fall in one bin, chosen by n.  In the
\* BJ programs record i yields the value ((i+1) * 37) % 101: the first 100
\* records yield the numbers 1..100 in a scrambled order.  In the CG programs
\* the weights are 1, 2, ... in the first record, scrambled in the others.
SeriesValue(k) == (k * 37) % 101

SeriesWeights(v, k) ==
    IF v = "BJ_v3" THEN <<1, nReplicas * SeriesValue(k + 1) - 1>>
    ELSE IF v = "BJ_v4" THEN <<nReplicas * SeriesValue(k + 1)>>
    ELSE IF k = 0 THEN Ramp(nReplicas + 1, 1, 1)
    ELSE [j \in 1..(nReplicas + 1) |-> SeriesValue(j + k)]

SeriesEvent(v, n, k) ==
    Event(1, 4 + 2 * (n % 3), n % 5, MjOf(v, 500 + 300 * (n % 3)), SeriesWeights(v, k))

GetEntrySeries == ProcessEntry(SeriesEvent(variant, nentries, i))

\* a loop end that leaves the range as the loop left it; C16 must reject it
EndLoopNoRepair ==
    /\ pc = "loop"
    /\ i >= nentries
    /\ pc' = "envelope"
    /\ UNCHANGED <<variant, layout, inputVars, outVars, nentries, i, branchVars,
                   localVars, envVars, accVars>>

\* the loop ends; BJ_v4 then repairs an empty range (line 132)
EndLoop ==
    /\ pc = "loop"
    /\ i >= nentries
    /\ pc' = "envelope"
    /\ IF variant = "BJ_v4" /\ FracLess(y_max, y_min)
       THEN y_min' = FracOfInt(0) /\ y_max' = FracOfInt(1)
       ELSE UNCHANGED <<y_min, y_max>>
    /\ UNCHANGED <<variant, layout, inputVars, outVars, nentries, i, branchVars,
                   localVars, envVars,
                   bin_event_ratios, bin_data, bin_replica_sums, past_end, data,
                   bin_mj_replica_sums>>

(***************************************************************************)
(* The per-bin step after the loop: one action is one iteration over b     *)
(***************************************************************************)
\* a rounded, not truncated, index; C8 must reject it
Index16Rounded(N) == (16 * N + 50) \div 100

\* int idx_16 = (int)(N * 0.16);
Index16(N) == TruncMul(N, Mant16, Scale16)

\* an index rounded up and not clamped; C20 must reject it
Index84RoundedUp(N) == (84 * N + 99) \div 100

\* int idx_84 = (int)(N * 0.84);  if (idx_84 >= N) idx_84 = N - 1;
Index84(N) ==
    LET idx == TruncMul(N, Mant84, Scale84)
    IN  IF idx >= N THEN N - 1 ELSE idx

\* no test of the list's size; C10 must reject it
HasSamplesAlways(N) == N >= 0

\* if (N > 0) in BJ_v3, if (N == 0) continue; in BJ_v4
HasSamples(N) == N > 0

\* the lines made from sorted values, blue ones (wanted) or the others
LinesOf(bb, sorted, i16, i84, wanted) ==
    LET lines == [k \in 1..Len(sorted) |->
                     [bin |-> bb, pos |-> k - 1, val |-> sorted[k]]]
        Keep(l) == ((l.pos = i16) \/ (l.pos = i84)) = wanted
    IN  SelectSeq(lines, Keep)

\* BJ_v3 lines 160-193 and BJ_v4 lines 153-183: the list is sorted in place
EnvelopeSamples ==
    LET lists == IF variant = "BJ_v3" THEN bin_event_ratios ELSE bin_data
        N == Len(lists[b])
        sorted == SortFracs(lists[b])
        i16 == Index16(N)
        i84 == Index84(N)
    IN  /\ h_frame' = IF variant = "BJ_v3" THEN (b + 1 :> FracOfInt(1)) @@ h_frame
                      ELSE h_frame
        /\ IF HasSamples(N)
           THEN /\ bin_event_ratios' = IF variant = "BJ_v3"
                                       THEN [bin_event_ratios EXCEPT ![b] = sorted]
                                       ELSE bin_event_ratios
                /\ bin_data' = IF variant = "BJ_v4"
                               THEN [bin_data EXCEPT ![b] = sorted]
                               ELSE bin_data
                /\ idx_16' = (b :> i16) @@ idx_16
                /\ idx_84' = (b :> i84) @@ idx_84
                /\ blue_lines' = blue_lines \o LinesOf(b, sorted, i16, i84, TRUE)
                /\ cyan_lines' = cyan_lines \o LinesOf(b, sorted, i16, i84, FALSE)
           ELSE UNCHANGED <<bin_event_ratios, bin_data, idx_16, idx_84,
                            blue_lines, cyan_lines>>
        /\ UNCHANGED <<y_min, y_max, bin_replica_sums, past_end, data,
                       bin_mj_replica_sums, h_nom, h_down, h_up, h_reps>>
        /\ pc' = pc

\* the index the sample programs would use; C9 must reject it
SumIdx16OfSamples == (16 * nReplicas) \div 100

\* double val_16 = replica_yields[15];  double val_84 = replica_yields[83];
SumIdx16 == 15
SumIdx84 == 83

\* CG_v3 line 155 with k = 100: bin_replica_sums[b][100], past the row's end
PastRow(bb) ==
    IF layout = "adjacent" /\ bb + 1 < nBins THEN bin_replica_sums[bb + 1][0]
    ELSE past_end[bb]

\* CG_v3 lines 153-157: the sums of k = 1..100
ReplicaYields(bb) ==
    [k \in 1..nReplicas |->
        IF k < nReplicas THEN bin_replica_sums[bb][k] ELSE PastRow(bb)]

\* CG_v3 lines 149-172
EnvelopeYields ==
    LET sorted == SortInts(ReplicaYields(b))
    IN  /\ IF layout = "guarded"
           THEN pc' = "aborted" /\ UNCHANGED <<h_nom, h_down, h_up, h_reps>>
           ELSE /\ pc' = pc
                /\ h_reps' = (b + 1 :> [k \in Replicas |->
                                           FracOfInt(ReplicaYields(b)[k + 1])]) @@ h_reps
                /\ h_nom' = (b + 1 :> FracOfInt(bin_replica_sums[b][0])) @@ h_nom
                /\ h_down' = (b + 1 :> FracOfInt(sorted[SumIdx16 + 1])) @@ h_down
                /\ h_up' = (b + 1 :> FracOfInt(sorted[SumIdx84 + 1])) @@ h_up
        /\ UNCHANGED <<accVars, idx_16, idx_84, blue_lines, cyan_lines, h_frame>>

getPadNumber(bn) ==
    IF bn >= 22 /\ bn <= 33 THEN bn - 21
    ELSE IF bn = 35 THEN 14
    ELSE IF bn = 36 THEN 15
    ELSE -1

\* a zero nominal replaced by 2, not 1.0; C12 must reject it
NominalTwo(sum) == IF sum = 0 THEN 2 ELSE sum

\* if (nom_val == 0) nom_val = 1.0;
Nominal(sum) == IF sum = 0 THEN 1 ELSE sum

\* CG_mj_bin_v2 lines 231-248, CG_mj_bin_v3 lines 211-239: the histograms of
\* pad b, one bin per mj bin, from a sorted copy of the sums
EnvelopeMjPad ==
    LET sums == IF variant = "CG_mj_v2" THEN data ELSE bin_mj_replica_sums
        padNum == getPadNumber(binNumbers[b + 1])
        nom_val(m) == Nominal(sums[b][m][0])
        sorted(m) == SortInts([k \in 1..nReplicas |-> sums[b][m][k - 1]])
    IN  /\ IF padNum < 1 \/ padNum > 15
           THEN UNCHANGED <<h_nom, h_down, h_up, h_reps>>
           ELSE /\ h_nom' = (b :> [m \in 1..nMjBins |-> FracOfInt(1)]) @@ h_nom
                /\ h_reps' = (b :> [m \in 1..nMjBins |-> [k \in Replicas |->
                                 Frac(sums[b][m - 1][k], nom_val(m - 1))]]) @@ h_reps
                /\ h_down' = (b :> [m \in 1..nMjBins |->
                                 Frac(sorted(m - 1)[SumIdx16 + 1], nom_val(m - 1))])
                             @@ h_down
                /\ h_up' = (b :> [m \in 1..nMjBins |->
                               Frac(sorted(m - 1)[SumIdx84 + 1], nom_val(m - 1))])
                           @@ h_up
        /\ pc' = pc
        /\ UNCHANGED <<accVars, idx_16, idx_84, blue_lines, cyan_lines, h_frame>>

\* one iteration of  for (int b = 0; b < nBins; ++b)
EnvelopeBin ==
    /\ pc = "envelope"
    /\ b < nBins
    /\ b' = b + 1
    /\ CASE variant \in SampleVariants -> EnvelopeSamples
         [] variant = "CG_v3" -> EnvelopeYields
         [] OTHER -> EnvelopeMjPad
    /\ UNCHANGED <<variant, layout, inputVars, outVars, nentries, i, branchVars,
                   localVars>>

\* CG_v3 lines 175-186: yields to ratios, all bins
ConvertToRatios ==
    /\ pc = "envelope"
    /\ b = nBins
    /\ variant = "CG_v3"
    /\ pc' = "draw"
    /\ h_nom' = [bb \in 1..nBins |-> FracOfInt(1)]
    /\ h_up' = [bb \in 1..nBins |-> FracDiv(h_up[bb], FracOfInt(Nominal(h_nom[bb][1])))]
    /\ h_down' = [bb \in 1..nBins |->
                     FracDiv(h_down[bb], FracOfInt(Nominal(h_nom[bb][1])))]
    /\ h_reps' = [bb \in 1..nBins |-> [k \in Replicas |->
                     FracDiv(h_reps[bb][k], FracOfInt(Nominal(h_nom[bb][1])))]]
    /\ UNCHANGED <<variant, layout, inputVars, outVars, nentries, i, branchVars,
                   localVars, accVars,
                   b, idx_16, idx_84, blue_lines, cyan_lines, h_frame>>

\* drawing and c1->SaveAs(...): the computed series are final
SaveAs ==
    /\ \/ pc = "draw"
       \/ pc = "envelope" /\ b = nBins /\ variant # "CG_v3"
    /\ pc' = "done"
    /\ saved' = TRUE
    /\ status' = 0
    /\ UNCHANGED <<variant, layout, inputVars, nentries, i, branchVars, localVars,
                   accVars, envVars>>

Next == GetEntry \/ EndLoop \/ EnvelopeBin \/ ConvertToRatios \/ SaveAs

Spec == Init /\ [][Next]_vars

(***************************************************************************)
(* Runs on a tree of one or two records whose last record is any record    *)
(***************************************************************************)
MaxClassifyEntries == 2

InitClassify ==
    /\ InitBuild
    /\ nentries \in 1..MaxClassifyEntries

NextClassify == GetEntryAny \/ EndLoop

SpecClassify == InitClassify /\ [][NextClassify]_vars

(***************************************************************************)
(* Runs on a tree whose records all fall in one bin: up to MaxN records in *)
(* the BJ programs, up to MaxSeries in the CG programs                     *)
(***************************************************************************)
MaxSeries == 2

InitSeries ==
    /\ InitBuild
    /\ nentries \in 0..(IF variant \in SampleVariants THEN MaxN ELSE MaxSeries)

NextSeries == GetEntrySeries \/ EndLoop \/ EnvelopeBin \/ ConvertToRatios \/ SaveAs

SpecEnvelope == InitSeries /\ [][NextSeries]_vars

(***************************************************************************)
(* Runs of the sum programs on trees whose weights differ in magnitude     *)
(***************************************************************************)
MaxOrder == 3

Flat(len, x) == [k \in 1..len |-> x]

\* records in one cell with small weights (one of them of exactly 100 weights),
\* with weights 2^80 and with weights -2^80, and a record in another cell
OrderEvents(v) ==
    { Event(1, 4, 0, MjOf(v, 500), Ramp(nReplicas + 1, 1, 1)),
      Event(1, 4, 0, MjOf(v, 500), Flat(nReplicas + 1, BigUnit)),
      Event(1, 4, 0, MjOf(v, 500), Flat(nReplicas + 1, -BigUnit)),
      Event(1, 8, 4, MjOf(v, 1100), Ramp(nReplicas + 1, 0, 2)),
      Event(1, 4, 0, MjOf(v, 500), Ramp(nReplicas, 100, -1)) }

GetEntryOrder == \E ev \in OrderEvents(variant) : ProcessEntry(ev)

InitOrder ==
    /\ InitBuild
    /\ variant \in SumVariants
    /\ nentries \in 0..MaxOrder

NextOrder == GetEntryOrder \/ EndLoop

SpecOrder == InitOrder /\ [][NextOrder]_vars

(***************************************************************************)
(* Runs from the first line of main: the setup, then a tree of at most     *)
(* MaxSetupEntries records                                                  *)
(***************************************************************************)
MaxSetupEntries == 1

\* return 1;
Exit(code) ==
    /\ pc' = "exited"
    /\ status' = code
    /\ UNCHANGED saved

\* if (argc < 2) { ...; return 1; }
CheckArgs ==
    /\ pc = "args"
    /\ IF argc < 2 THEN Exit(1) ELSE pc' = "open" /\ UNCHANGED outVars
    /\ UNCHANGED <<variant, layout, inputVars, nentries, i, branchVars, localVars,
                   accVars, envVars>>

\* TFile::Open;  if (!file || file->IsZombie()) { ...; return 1; }
OpenFile ==
    /\ pc = "open"
    /\ IF file # "ok" THEN Exit(1) ELSE pc' = "tree" /\ UNCHANGED outVars
    /\ UNCHANGED <<variant, layout, inputVars, nentries, i, branchVars, localVars,
                   accVars, envVars>>

\* file->Get("tree");  if (!tree) { ...; return 1; }
GetTree ==
    /\ pc = "tree"
    /\ IF ~has_tree THEN Exit(1) ELSE pc' = "branches" /\ UNCHANGED outVars
    /\ UNCHANGED <<variant, layout, inputVars, nentries, i, branchVars, localVars,
                   accVars, envVars>>

\* the SetBranchAddress calls: their return values are not looked at, and a
\* name the tree does not have leaves the variable as it is
SetBranchAddress ==
    /\ pc = "branches"
    /\ pc' = "loop"
    /\ UNCHANGED <<variant, layout, inputVars, outVars, nentries, i, branchVars,
                   localVars, accVars, envVars>>

\* what  int nleps, njets, nbm;  float mj12;  may hold before anything is stored
GarbageInts == {1, 5}
GarbageMj == {0, 600}

SetupEvents(v) ==
    { Event(1, 4, 0, MjOf(v, 500), Ramp(nReplicas + 1, 1, 1)),
      Event(2, 3, 0, MjOf(v, 499), Ramp(nReplicas + 1, 0, 2)) }

GetEntrySetup == \E ev \in SetupEvents(variant) : ProcessEntry(ev)

InitSetup ==
    /\ variant \in Variants
    /\ layout \in (IF variant = "CG_v3" THEN Layouts ELSE {"slack"})
    /\ \E g \in (IF variant = "CG_v3" THEN GarbageVals ELSE {0}) : InitAccumulators(g)
    /\ InitEnvelope
    /\ argc \in 1..2
    /\ file \in (IF argc >= 2 THEN {"ok", "zombie"} ELSE {"zombie"})
    /\ has_tree \in (IF file = "ok" THEN BOOLEAN ELSE {FALSE})
    /\ branches \in (IF has_tree THEN SUBSET Required(variant) ELSE {{}})
    /\ nentries \in (IF has_tree THEN 0..MaxSetupEntries ELSE {0})
    /\ status = NotReturned /\ saved = FALSE
    /\ pc = "args" /\ i = 0
    /\ tree = <<>>
    /\ weight_vec = <<>>
    /\ nleps \in (IF has_tree /\ "nleps" \notin branches THEN GarbageInts ELSE {0})
    /\ njets \in (IF has_tree /\ "njets" \notin branches THEN GarbageInts ELSE {0})
    /\ nbm \in (IF has_tree /\ "nbm" \notin branches THEN GarbageInts ELSE {0})
    /\ mj12 \in (IF has_tree /\ variant \in MjVariants /\ "mj12" \notin branches
                 THEN GarbageMj ELSE {0})
    /\ binNum = "unset" /\ bIdx = "unset" /\ mIdx = "unset"
    /\ step = "none"

NextSetup ==
    \/ CheckArgs \/ OpenFile \/ GetTree \/ SetBranchAddress
    \/ GetEntrySetup \/ EndLoop \/ EnvelopeBin \/ ConvertToRatios \/ SaveAs

SpecSetup == InitSetup /\ [][NextSetup]_vars

(***************************************************************************)
(* Properties                                                              *)
(***************************************************************************)
Catalog == (22..33) \cup {35, 36}

\* the jet category of a jet count of 4 or more, as the table states it
JetCat(n) == IF n <= 5 THEN 0 ELSE IF n <= 7 THEN 1 ELSE 2

\* the place of a catalog member in the ascending catalog
CatalogPos(c) == IF c <= 33 THEN c - 22 ELSE c - 23

\* the last loop body got as far as computing binNum
Classified == step \notin {"none", "empty", "nleps"}

\* the last loop body got as far as computing mIdx (the mj programs)
MjClassified == step \in {"nomj", "short", "added", "throw"}

\* a loop body ran in this step
LoopStep == pc = "loop" /\ i' = i + 1

\* what a skipped record leaves behind: the accumulators as they were, and the
\* loop still running
Skipped == accVars' = accVars /\ pc' = "loop"

\* C1: for nbm in 0..3 and njets >= 4, getBinNumber returns 22 + 3*nbm + j with
\* j = 0, 1, 2 for njets in 4..5, 6..7, 8 and up; the loop of every variant
\* gets that number for its record.
C1_BinTable ==
    (njets >= 4 /\ nbm \in 0..3) =>
        /\ getBinNumber(njets, nbm) = 22 + 3 * nbm + JetCat(njets)
        /\ Classified => binNum = 22 + 3 * nbm + JetCat(njets)

C1_Witness ==
    /\ variant = "BJ_v4" /\ step = "added"
    /\ njets = 7 /\ nbm = 2 /\ binNum = 29

\* C2: for nbm >= 4 the bin depends on the jet category alone: 31 for njets in
\* 4..5 (the bin of nbm = 3 there), 35 for 6..7, 36 for 8 and up.
C2_MergedTags ==
    (njets >= 4 /\ nbm >= 4) =>
        LET want == IF njets <= 5 THEN 31 ELSE IF njets <= 7 THEN 35 ELSE 36
        IN  /\ getBinNumber(njets, nbm) = want
            /\ Classified => binNum = want
            /\ getBinNumber(njets, 4) = want
            /\ getBinNumber(njets, BigNbm) = want
            /\ njets <= 5 => getBinNumber(njets, 3) = want

C2_Witness ==
    /\ step = "added"
    /\ njets = 6 /\ nbm = BigNbm /\ binNum = 35

\* C3: for njets < 4 getBinNumber returns -1 whatever nbm is, and the loop body
\* skips the record: no accumulator changes and the loop goes on.
C3_TooFewJets ==
    [][ (LoopStep /\ njets' < 4) =>
            /\ getBinNumber(njets', nbm') = -1
            /\ step' \in {"empty", "nleps", "nobin"}
            /\ step' = "nobin" => binNum' = -1
            /\ Skipped ]_vars

C3_Witness ==
    /\ i = 2 /\ step = "nobin"
    /\ njets = 3 /\ nbm = BigNbm /\ binNum = -1

\* C4: getBinNumber returns -1 or a catalog member for every pair of integers,
\* never 34; getIdx(34) is -1 and getIdx maps each catalog member to its place
\* 0..13; the skip on getIdx = -1 is never taken.
C4_CatalogOnly ==
    /\ getBinNumber(njets, nbm) \in {-1} \cup Catalog
    /\ Classified => binNum \in {-1} \cup Catalog
    /\ getIdx(34) = -1
    /\ \A c \in Catalog : getIdx(c) = CatalogPos(c)
    /\ \A k \in Bins : getIdx(binNumbers[k + 1]) = k
    /\ step # "noidx"
    /\ (Classified /\ step # "nobin") => bIdx = CatalogPos(binNum)

C4_Witness ==
    /\ step = "added"
    /\ nbm = BigNbm /\ binNum = 36 /\ bIdx = 13

\* the mj bin of a value, as the ranges state it
MjRange(m) == IF m < 500 THEN -1 ELSE IF m < 800 THEN 0 ELSE IF m < 1100 THEN 1 ELSE 2

\* C5: getMjBinIndex returns 0 on [500, 800), 1 on [800, 1100), 2 from 1100 on
\* and -1 below 500, and a record with result -1 adds to no sum.
C5_MjBins ==
    [][ (LoopStep /\ variant \in MjVariants) =>
            /\ getMjBinIndex(mj12') = MjRange(mj12')
            /\ MjClassified' => mIdx' = MjRange(mj12')
            /\ mj12' < 500 =>
                  /\ Skipped
                  /\ step' \in {"empty", "nleps", "nobin", "nomj"} ]_vars

C5_Witness ==
    /\ variant = "CG_mj_v3" /\ i = 2
    /\ step = "nomj" /\ mj12 = 499 /\ mIdx = -1
    /\ bin_mj_replica_sums # ZeroMjSums

\* a record that fails a cut other than the length of its weight vector
FailsCut(l, j, n, m, w) ==
    \/ l # 1
    \/ Len(w) = 0
    \/ j < 4 \/ n < 0
    \/ variant \in MjVariants /\ m < 500

\* the per-bin sample lists of the BJ programs
SampleLists == IF variant = "BJ_v3" THEN bin_event_ratios ELSE bin_data

SumCells == IF variant = "CG_v3" THEN Bins ELSE Bins \X MjBins

SumRow(c) ==
    IF variant = "CG_v3" THEN bin_replica_sums[c]
    ELSE IF variant = "CG_mj_v2" THEN data[c[1]][c[2]]
    ELSE bin_mj_replica_sums[c[1]][c[2]]

Processed(bb) == pc \in {"envelope", "draw", "done"} /\ bb < b

Positions(lines, bb) == {lines[k].pos : k \in {j \in 1..Len(lines) : lines[j].bin = bb}}

Ascending(list) == \A k \in 1..(Len(list) - 1) : ~FracLess(list[k + 1], list[k])

Smaller(x, y) == IF x < y THEN x ELSE y

\* C8: in the BJ programs a bin with N >= 1 samples gets idx16 = floor(N * 0.16)
\* and idx84 = floor(N * 0.84), at most N - 1, of its ascending-sorted list; the
\* blue lines are the lines at exactly those two positions, the others cyan.
C8_PercentileIndices ==
    variant \in SampleVariants =>
        \A bb \in Bins :
            (Processed(bb) /\ Len(SampleLists[bb]) >= 1) =>
                LET N == Len(SampleLists[bb])
                    want16 == (16 * N) \div 100
                    want84 == Smaller((84 * N) \div 100, N - 1)
                    all == blue_lines \o cyan_lines
                IN  /\ Ascending(SampleLists[bb])
                    /\ bb \in DOMAIN idx_16 /\ idx_16[bb] = want16
                    /\ bb \in DOMAIN idx_84 /\ idx_84[bb] = want84
                    /\ Positions(blue_lines, bb) = {want16, want84}
                    /\ Positions(cyan_lines, bb) = (0..(N - 1)) \ {want16, want84}
                    /\ \A k \in 1..Len(all) :
                          all[k].bin = bb => all[k].val = SampleLists[bb][all[k].pos + 1]

\* N = 25: the product 25 * 0.84 lies below 21 and rounds to the double 21.0
C8_Witness ==
    /\ variant = "BJ_v3" /\ pc = "done"
    /\ \E bb \in Bins :
          /\ Len(bin_event_ratios[bb]) = 25
          /\ bb \in DOMAIN idx_84
          /\ idx_16[bb] = 4 /\ idx_84[bb] = 21
          /\ Positions(blue_lines, bb) = {4, 21}

\* x is element k (from 0) of the ascending arrangement of list
IsElement(list, x, k) ==
    /\ Cardinality({j \in DOMAIN list : list[j] < x}) <= k
    /\ Cardinality({j \in DOMAIN list : list[j] <= x}) >= k + 1

OneToHundred == [k \in 1..nReplicas |-> FracOfInt(k)]

\* the BJ part of C9: a bin of 100 samples uses elements 16 and 84, and the
\* samples 1..100 give the blue lines 17 and 85
C9_Samples ==
    variant \in SampleVariants =>
        \A bb \in Bins :
            (Processed(bb) /\ Len(SampleLists[bb]) = nReplicas) =>
                /\ bb \in DOMAIN idx_16 /\ idx_16[bb] = 16
                /\ bb \in DOMAIN idx_84 /\ idx_84[bb] = 84
                /\ SampleLists[bb] = OneToHundred =>
                      {blue_lines[k].val : k \in {j \in 1..Len(blue_lines) :
                                                     blue_lines[j].bin = bb}}
                          = {FracOfInt(17), FracOfInt(85)}

\* the list a sum program sorts for a cell: a copy of the row in the mj
\* programs, the cells k = 1..100 of the row in CG_v3
SortedList(c) == IF variant = "CG_v3" THEN ReplicaYields(c) ELSE SumRow(c)

\* the low and high ratios a sum program ends with for a cell, if it has them
HasEnvelope(c) ==
    IF variant = "CG_v3" THEN pc \in {"draw", "done"}
    ELSE Processed(c[1]) /\ c[1] \in DOMAIN h_down

Low(c) == IF variant = "CG_v3" THEN h_down[c + 1] ELSE h_down[c[1]][c[2] + 1]
High(c) == IF variant = "CG_v3" THEN h_up[c + 1] ELSE h_up[c[1]][c[2] + 1]

\* low and high are elements lo and hi of the ascending arrangement of list,
\* divided by the nominal
UsesElements(c, list, lo, hi) ==
    LET nom == Nominal(SumRow(c)[0])
        vals == {list[j] : j \in DOMAIN list}
    IN  /\ \E x \in vals : IsElement(list, x, lo) /\ Low(c) = Frac(x, nom)
        /\ \E x \in vals : IsElement(list, x, hi) /\ High(c) = Frac(x, nom)

\* C9 as stated: elements 16 and 84 of 100 values, in the sum programs too,
\* where the list is the 100 per-replica sums of a bin.
C9_AsStated ==
    /\ C9_Samples
    /\ variant \in SumVariants =>
          \A c \in SumCells :
              HasEnvelope(c) =>
                  UsesElements(c, [k \in 1..nReplicas |-> SumRow(c)[k - 1]], 16, 84)

\* C9 amended: elements 16 and 84 in the BJ programs; the sum programs use
\* elements 15 and 83 of the ascending-sorted list of 100 values they build
\* (the row in the mj programs, the cells k = 1..100 of the row in CG_v3), so
\* that sums 1..100 with nominal 1 give 16 and 84.
C9_HundredValues ==
    /\ C9_Samples
    /\ variant \in SumVariants =>
          \A c \in SumCells :
              HasEnvelope(c) =>
                  /\ UsesElements(c, SortedList(c), 15, 83)
                  /\ (variant \in MjVariants /\ SumRow(c) = [k \in Replicas |-> k + 1]) =>
                        Low(c) = FracOfInt(16) /\ High(c) = FracOfInt(84)

C9_Witness ==
    /\ variant = "CG_mj_v3" /\ pc = "done"
    /\ \E c \in SumCells :
          /\ SumRow(c) = [k \in Replicas |-> k + 1]
          /\ Low(c) = FracOfInt(16) /\ High(c) = FracOfInt(84)

\* C10: in the BJ programs a bin with no sample gets no percentile index and
\* no line, blue or cyan.
C10_EmptyBin ==
    variant \in SampleVariants =>
        \A bb \in Bins :
            (Processed(bb) /\ Len(SampleLists[bb]) = 0) =>
                /\ bb \notin DOMAIN idx_16
                /\ bb \notin DOMAIN idx_84
                /\ Positions(blue_lines, bb) = {}
                /\ Positions(cyan_lines, bb) = {}

C10_Witness ==
    /\ variant = "BJ_v4" /\ pc = "done"
    /\ Len(bin_data[0]) = 2 /\ Len(bin_data[1]) = 0
    /\ Positions(blue_lines, 0) = {0, 1}
    /\ DOMAIN idx_16 = {0}

\* a record that passes every cut of the running program
Qualifies(l, j, n, m, w) ==
    /\ ~FailsCut(l, j, n, m, w)
    /\ Len(w) >= nReplicas

\* weight[0] + ... + weight[99]
FirstHundred(w) == SumRange(w, 1, nReplicas)

Last(list) == list[Len(list)]

Reps(c) == IF variant = "CG_v3" THEN h_reps[c + 1] ELSE h_reps[c[1]][c[2] + 1]
Nom(c) == IF variant = "CG_v3" THEN h_nom[c + 1] ELSE h_nom[c[1]][c[2] + 1]

\* the number the series of a cell are to be divided by
Divisor(c) == IF SumRow(c)[0] = 0 THEN 1 ELSE SumRow(c)[0]

\* C12: in the sum programs the low, high and per-replica values of a cell are
\* the collected sums divided by the cell's replica-0 sum, by 1 when that sum
\* is 0; no quotient has a zero divisor, and the nominal series is 1.
C12_NominalDivisor ==
    variant \in SumVariants =>
        \A c \in SumCells :
            HasEnvelope(c) =>
                LET list == IF variant = "CG_v3" THEN ReplicaYields(c)
                            ELSE [k \in 1..nReplicas |-> SumRow(c)[k - 1]]
                    sorted == SortInts(list)
                IN  /\ Nom(c) = FracOfInt(1)
                    /\ Low(c) = Frac(sorted[SumIdx16 + 1], Divisor(c))
                    /\ High(c) = Frac(sorted[SumIdx84 + 1], Divisor(c))
                    /\ Low(c)[2] > 0 /\ High(c)[2] > 0
                    /\ \A k \in Replicas :
                          /\ Reps(c)[k][2] > 0
                          /\ Reps(c)[k] =
                                Frac(list[k + 1], Divisor(c))

\* a cell whose replica-0 sum is 0 while other sums are not, and one whose
\* replica-0 sum is not 0
C12_Witness ==
    /\ variant \in SumVariants /\ pc = "done"
    /\ \E c, d \in SumCells :
          /\ SumRow(c)[0] = 0 /\ SumRow(c)[50] = 100
          /\ Reps(c)[50] \in {FracOfInt(100), FracOfInt(102)}
          /\ Low(c)[1] > 0
          /\ SumRow(d)[0] = 1 /\ Nom(d) = FracOfInt(1)

\* the whole table of sums of the running sum program
SumTable ==
    IF variant = "CG_v3" THEN bin_replica_sums
    ELSE IF variant = "CG_mj_v2" THEN data
    ELSE bin_mj_replica_sums

ZeroTable == IF variant = "CG_v3" THEN ZeroSums ELSE ZeroMjSums

\* the table after the loop body has run on record ev without aborting
TableAfter(sums, ev) ==
    LET w == ev.weight
        hasMj == variant \in MjVariants
        bn == getBinNumber(ev.njets, ev.nbm)
        bi == getIdx(bn)
        mi == getMjBinIndex(ev.mj12)
        n == LoopCount(variant)
    IN  IF \/ IsEmpty(w) \/ LeptonCut(ev.nleps) \/ bn = -1 \/ bi = -1
           \/ hasMj /\ mi = -1
           \/ ~EnoughReplicas(w)
        THEN sums
        ELSE IF hasMj THEN [sums EXCEPT ![bi][mi] = AddedRow(@, w, n)]
        ELSE [bb \in Bins |->
                 IF bb = bi THEN AddedRow(sums[bb], w, n)
                 ELSE IF layout = "adjacent" /\ bb = bi + 1 /\ ~Throws(w, n)
                      THEN [sums[bb] EXCEPT ![0] = AddDouble(@, w[nReplicas + 1])]
                 ELSE sums[bb]]

\* the table after one pass over the records of seq, started from sums
RECURSIVE AccumulateAll(_, _)
AccumulateAll(sums, seq) ==
    IF Len(seq) = 0 THEN sums
    ELSE AccumulateAll(TableAfter(sums, Head(seq)), Tail(seq))

\* the arrangements of the records of seq
Arrangements(seq) ==
    { [k \in 1..Len(seq) |-> seq[p[k]]] : p \in Permutations(1..Len(seq)) }

\* one pass, and two passes over the two parts of a split into one accumulator
PartitionFree(seq) ==
    \A k \in 0..Len(seq) :
        AccumulateAll(AccumulateAll(ZeroTable, SubSeq(seq, 1, k)),
                      SubSeq(seq, k + 1, Len(seq)))
            = AccumulateAll(ZeroTable, seq)

\* no weight of the records is as large as 2^80: every sum is exact
SmallWeights(seq) ==
    \A k \in 1..Len(seq) : \A j \in 1..Len(seq[k].weight) :
        HighPart(seq[k].weight[j]) = 0

SetupFails ==
    \/ argc < 2
    \/ file # "ok"
    \/ ~has_tree
    \/ branches # Required(variant)

\* C14: after any setup failure the run ends with a non-zero status before the
\* event loop starts, and writes no output file.
C14_SetupFailures ==
    SetupFails =>
        /\ pc \in {"args", "open", "tree", "branches", "exited"}
        /\ status \in {NotReturned, 1}
        /\ ~saved
        /\ i = 0

\* the cell of the sums a record falls in
CellOf(ev) ==
    LET bi == getIdx(getBinNumber(ev.njets, ev.nbm))
    IN  IF variant = "CG_v3" THEN bi ELSE <<bi, getMjBinIndex(ev.mj12)>>

\* a record of the tree read so far was accumulated in cell c
Received(c) ==
    \E k \in 1..Len(tree) :
        /\ Qualifies(tree[k].nleps, tree[k].njets, tree[k].nbm, tree[k].mj12,
                     tree[k].weight)
        /\ CellOf(tree[k]) = c

\* a low and a high value were stored for cell c
HasResult(c) ==
    IF variant = "CG_v3" THEN (c + 1) \in DOMAIN h_down /\ (c + 1) \in DOMAIN h_up
    ELSE c[1] \in DOMAIN h_down /\ c[1] \in DOMAIN h_up

\* C15: in the sum programs a cell that received no record gets no low and no
\* high value when the run is over.
C15_EmptyCell ==
    (variant \in SumVariants /\ pc = "done") =>
        \A c \in SumCells : ~Received(c) => ~HasResult(c)

(***************************************************************************)
(* C16: the running range of BJ_v4                                         *)
(***************************************************************************)
\* every value collected so far, of all bins together
Collected == UNION {{bin_data[bb][k] : k \in 1..Len(bin_data[bb])} : bb \in Bins}

IsMin(x, S) == x \in S /\ \A v \in S : ~FracLess(v, x)

IsMax(x, S) == x \in S /\ \A v \in S : ~FracLess(x, v)

\* the range as the claim describes it, with the default [0, top] of an
\* empty pass
RangeWithDefault(top) ==
    variant = "BJ_v4" =>
        /\ Collected # {} => IsMin(y_min, Collected) /\ IsMax(y_max, Collected)
        /\ Collected = {} /\ pc = "loop" => FracLess(y_max, y_min)
        /\ pc # "loop" =>
              /\ Collected = {} =>
                    y_min = FracOfInt(0) /\ y_max = FracOfInt(top)
              /\ ~FracLess(y_max, y_min)
              /\ ~FracLess(SetRangeUser(y_min, y_max)[2],
                           SetRangeUser(y_min, y_max)[1])

\* C16 as stated: the running min and max are taken over every collected
\* value of all bins together; when no event was collected (min > max after
\* the pass) the range falls back to [0.0, 2.0]; the range handed on is
\* never one with min > max.
C16_AsStated == RangeWithDefault(2)

\* C16 (amended): the running min and max are taken over every collected
\* value of all bins together; when no event was collected (min > max after
\* the pass) the range falls back to [0.0, 1.0]; the range handed on, the
\* min and max widened by a tenth of their distance, is never one with
\* min > max.
C16_Range == RangeWithDefault(1)

\* a pass over records that were all skipped: the default range is in force
C16_Witness ==
    /\ variant = "BJ_v4"
    /\ pc = "done"
    /\ nentries >= 1
    /\ Collected = {}
    /\ y_min = FracOfInt(0) /\ y_max = FracOfInt(1)
    /\ SetRangeUser(y_min, y_max) = <<Frac(-1, 10), Frac(11, 10)>>

(***************************************************************************)
(* C17: the replica indices of the sum programs                            *)
(***************************************************************************)
\* the cell a record was added to
AddedCell == IF variant = "CG_v3" THEN bIdx' ELSE <<bIdx', mIdx'>>

\* C17: in the sum programs, accumulating a record of 100 or more weights and
\* later reading the sums touch replica indices 0..99 only: the step neither
\* throws nor faults, nothing outside the record's own row of 100 sums is
\* written, and the values read for the replica series are entries 0..99 of
\* the row.
C17_IndexRange ==
    [][ (variant \in SumVariants) =>
          /\ (LoopStep /\ step' \in {"added", "throw", "fault"}) =>
                /\ step' = "added"
                /\ past_end' = past_end
                /\ \A c \in SumCells \ {AddedCell} : SumRow(c)' = SumRow(c)
          /\ (pc = "envelope" /\ b' = b + 1) =>
                /\ pc' = "envelope"
                /\ variant = "CG_v3" =>
                      \A k \in Replicas :
                         \E j \in Replicas :
                            h_reps'[b + 1][k] = FracOfInt(bin_replica_sums[b][j]) ]_vars

(***************************************************************************)
(* C18: the event pass runs to its end                                     *)
(***************************************************************************)
\* C18: once setup has succeeded, every step of the pass either visits the
\* next record, the records 0..nentries-1 being visited once each and in
\* order, and leaves the pass running, or, after the last record, starts the
\* envelope step; no record makes the program abort in the middle.
C18_PassCompletes ==
    [][ (pc = "loop") =>
          \/ /\ i < nentries
             /\ i' = i + 1
             /\ Len(tree') = i'
             /\ \A n \in 1..i : tree'[n] = tree[n]
             /\ pc' = "loop"
          \/ /\ i = nentries
             /\ i' = i
             /\ tree' = tree
             /\ pc' = "envelope" ]_vars

(***************************************************************************)
(* C19: the life of the accumulator state                                  *)
(***************************************************************************)
\* the sample lists and the tables of sums
Samples == <<bin_event_ratios, bin_data>>

Sums == <<bin_replica_sums, data, bin_mj_replica_sums>>

EmptyState ==
    IF variant \in SampleVariants
    THEN \A bb \in Bins : SampleLists[bb] = <<>>
    ELSE \A c \in SumCells : \A k \in Replicas : SumRow(c)[k] = 0

\* a record the running program accumulates
Collects(l, j, n, m, w) ==
    /\ ~FailsCut(l, j, n, m, w)
    /\ variant \in SumVariants => Len(w) >= nReplicas

\* the state is empty before the first record, and a step of the pass changes
\* it only when its record is collected, one step being one record
DuringPass ==
    /\ (pc = "loop" /\ i = 0) => EmptyState
    /\ (pc = "loop" /\ <<Samples, Sums>>' # <<Samples, Sums>>) =>
          /\ i' = i + 1
          /\ Collects(nleps', njets', nbm', mj12', weight_vec')

\* C19 as stated: the accumulator state is empty (no samples, all sums 0)
\* before the first event, changes at most once per qualifying event during
\* the pass, and is never modified again after the pass has completed: the
\* envelope step only reads it.
C19_AsStated ==
    [][ /\ DuringPass
        /\ (pc # "loop") => <<Samples, Sums>>' = <<Samples, Sums>> ]_vars

\* C19 (amended): the accumulator state is empty (no samples, all sums 0)
\* before the first event and changes at most once per qualifying event
\* during the pass; after the pass has completed no sum is modified and no
\* sample is added, removed or changed in value: the envelope step only
\* reads the sums, and in the sample programs it sorts each bin's list of
\* samples in place, which changes nothing but the order of the samples.
C19_Lifecycle ==
    [][ /\ DuringPass
        /\ (pc # "loop") =>
              /\ Sums' = Sums
              /\ variant \in SampleVariants => \A bb \in Bins :
                    \/ SampleLists[bb]' = SampleLists[bb]
                    \/ /\ pc = "envelope" /\ b = bb
                       /\ SampleLists[bb]' = SortSeq(SampleLists[bb], FracLess)
                       /\ \E p \in Permutations(1..Len(SampleLists[bb])) :
                             SampleLists[bb]' =
                                [k \in 1..Len(SampleLists[bb]) |->
                                    SampleLists[bb][p[k]]] ]_vars

\* the envelope step has reordered a list of two samples collected in
\* descending order, and the run is over
C19_Witness ==
    /\ variant \in SampleVariants
    /\ pc = "done"
    /\ \E bb \in Bins :
          /\ Len(SampleLists[bb]) = 2
          /\ FracLess(SampleLists[bb][1], SampleLists[bb][2])
          /\ Len(tree) = 2
          /\ LET v(ev) == IF variant = "BJ_v4" \/ ev.weight[1] = 0
                          THEN Frac(FirstHundred(ev.weight), 100)
                          ELSE Frac(FirstHundred(ev.weight), ev.weight[1] * 100)
             IN  /\ Len(tree[1].weight) >= nReplicas
                 /\ Len(tree[2].weight) >= nReplicas
                 /\ SampleLists[bb] = <<v(tree[2]), v(tree[1])>>

(***************************************************************************)
(* C20: the two indices are in bounds and ordered                          *)
(***************************************************************************)
\* C20: for every sample list of length N >= 1 the computed indices satisfy
\* 0 <= idx16 <= idx84 <= N - 1, idx16 without any clamp, so both reads are
\* in bounds and, the list being sorted ascending, the low value is never
\* greater than the high value; for N = 1 both indices are 0 and denote the
\* same element.
C20_IndexBounds ==
    variant \in SampleVariants =>
        \A bb \in Bins :
            (Processed(bb) /\ Len(SampleLists[bb]) >= 1) =>
                LET N == Len(SampleLists[bb])
                    list == SampleLists[bb]
                IN  /\ bb \in DOMAIN idx_16 /\ bb \in DOMAIN idx_84
                    /\ idx_16[bb] = Index16(N)
                    /\ 0 <= idx_16[bb] /\ idx_16[bb] <= idx_84[bb]
                    /\ idx_84[bb] <= N - 1
                    /\ Ascending(list)
                    /\ ~FracLess(list[idx_84[bb] + 1], list[idx_16[bb] + 1])
                    /\ N = 1 => /\ idx_16[bb] = 0 /\ idx_84[bb] = 0
                                /\ Positions(blue_lines, bb) = {0}

\* a bin of one sample has been through the step: its only line is blue
C20_Witness ==
    /\ variant \in SampleVariants /\ pc = "done"
    /\ \E bb \in Bins :
          /\ Len(SampleLists[bb]) = 1
          /\ idx_16[bb] = 0 /\ idx_84[bb] = 0
          /\ Positions(blue_lines, bb) = {0}
          /\ Positions(cyan_lines, bb) = {}

(***************************************************************************)
(* C21: a record changes the cell of its own bin only                      *)
(***************************************************************************)
\* the samples stored in all bins and the records collected so far
StoredSamples == SumRange([n \in 1..nBins |-> Len(SampleLists[n - 1])], 1, nBins)

Accepted ==
    Cardinality({k \in 1..Len(tree) :
                    Collects(tree[k].nleps, tree[k].njets, tree[k].nbm,
                             tree[k].mj12, tree[k].weight)})

\* C21: a qualifying record changes the accumulator cell of its own bin (and
\* auxiliary bin) only.  In the sample programs exactly one value is appended
\* to exactly one bin's list, so that the number of stored samples is the
\* number of records accepted so far; in the sum programs the sums of every
\* other bin and auxiliary bin are left unchanged.
C21_OwnCellOnly ==
    [][ (/\ LoopStep
         /\ Collects(nleps', njets', nbm', mj12', weight_vec')) =>
            IF variant \in SampleVariants
            THEN /\ Len(SampleLists'[bIdx']) = Len(SampleLists[bIdx']) + 1
                 /\ \A k \in 1..Len(SampleLists[bIdx']) :
                       SampleLists'[bIdx'][k] = SampleLists[bIdx'][k]
                 /\ \A bb \in Bins \ {bIdx'} : SampleLists'[bb] = SampleLists[bb]
                 /\ StoredSamples = Accepted
                 /\ StoredSamples' = Accepted'
            ELSE \A c \in SumCells \ {AddedCell} : SumRow(c)' = SumRow(c) ]_vars

====
